---- MODULE Spec2Model ----
(***************************************************************************)
(* Model of the EVM bytecode interpreter and disassembler of rust-ethereum: *)
(* the ROM with its program counter, the operand stack, the instruction     *)
(* table, the handlers, the fetch/dispatch loop of run() and the loop of    *)
(* Rom::disassemble().                                                      *)
(*                                                                          *)
(* The two u128 halves of a u256 are modelled at a reduced width of         *)
(* HalfBits bits each (TLC integers are 32 bits wide); every operation      *)
(* wraps exactly where the u128 operation wraps.                            *)
(***************************************************************************)
EXTENDS Integers, Sequences, FiniteSets, TLC

VARIABLES
    mode,             \* the subcommand "run" or "disassemble", or "test" (cargo test)
    overflow_checks,  \* build profile: are integer overflow checks compiled in
    rom,              \* Rom.rom, the bytes (1-based here, 0-based in the code)
    pc,               \* Rom.pc
    size,             \* Rom.size
    stack,            \* Stack.stack, last element is the top
    memory,           \* Memory.memory
    storage,          \* Storage.storage
    status,           \* "Running", "Exited" (the loop was left) or "Panicked"
    panic_msg,        \* the panic message when status = "Panicked"
    opcode,           \* the last opcode byte fetched by the loop, -1 before
    result,           \* what the last dispatched handler returned (run drops it);
                      \* in disassemble mode, what Rom::disassemble returned
    lines,            \* the lines printed by Rom::disassemble
    opx, opy,         \* the u256 operands of the operation under test
    oper,             \* the operation under test, "none" before it is chosen
    ret,              \* the u256 the operation returned
    acc,              \* the local acc of the loop of u256::rem
    ap                \* position of the test: "off", "idle", "rem_test", "rem_body", "done"

\* The variables of the arithmetic tests.
arith == <<opx, opy, oper, ret, acc, ap>>

\* The variables of the machine apart from the stack and the last result.
machine == <<mode, overflow_checks, rom, pc, size, memory, storage,
             status, panic_msg, opcode, lines>>

vars == <<mode, overflow_checks, rom, pc, size, stack, memory, storage,
          status, panic_msg, opcode, result, lines, opx, opy, oper, ret, acc, ap>>

-----------------------------------------------------------------------------
(* Bounds *)

HalfBits == 8
MaxRomLen == 4

-----------------------------------------------------------------------------
(* u256: types.rs *)

HalfMod == 2 ^ HalfBits
U128_MAX == HalfMod - 1

from_u128s(upper, lower) == [upper |-> upper, lower |-> lower]
zero == [upper |-> 0, lower |-> 0]
one == [upper |-> 0, lower |-> 1]
max == [upper |-> U128_MAX, lower |-> U128_MAX]
from_u8(lower) == [upper |-> 0, lower |-> lower]

overflowing_add(a, b) == [value |-> (a + b) % HalfMod, overflow |-> a + b >= HalfMod]

\* An addition that loses the carry out of the low half.
u256_add_carry_lost(self, rhs) ==
    LET lo == overflowing_add(self.lower, rhs.lower)
        up == overflowing_add(self.upper, rhs.upper)
    IN  from_u128s(up.value, lo.value)

u256_add(self, rhs) ==
    LET lo == overflowing_add(self.lower, rhs.lower)
        intermediate_upper == IF lo.overflow
                                THEN overflowing_add(rhs.upper, 1).value
                                ELSE rhs.upper
        up == overflowing_add(self.upper, intermediate_upper)
    IN  from_u128s(up.value, lo.value)

u256_eq(self, other) == (self.upper = other.upper) /\ (self.lower = other.lower)

\* A less_than that goes on to the lower halves when the upper half is greater.
less_than_upper_gt_ignored(self, other, equal) ==
    IF self.upper < other.upper THEN TRUE
    ELSE IF self.lower < other.lower THEN TRUE
    ELSE IF self.lower > other.lower THEN FALSE
    ELSE equal

less_than(self, other, equal) ==
    IF self.upper < other.upper THEN TRUE
    ELSE IF self.upper > other.upper THEN FALSE
    ELSE IF self.lower < other.lower THEN TRUE
    ELSE IF self.lower > other.lower THEN FALSE
    ELSE equal

u256_lt(self, other) == less_than(self, other, FALSE)
u256_le(self, other) == less_than(self, other, TRUE)
u256_gt(self, other) == ~less_than(self, other, TRUE)
u256_ge(self, other) == ~less_than(self, other, FALSE)

\* PartialOrd::partial_cmp; the Option is always Some
partial_cmp(self, other) ==
    IF u256_lt(self, other) THEN "Less"
    ELSE IF u256_gt(self, other) THEN "Greater"
    ELSE "Equal"

u256_not(self) == [upper |-> U128_MAX - self.upper, lower |-> U128_MAX - self.lower]

\* A subtraction that takes the two's complement branch for every operand.
u256_sub_twos_complement(self, rhs) ==
    u256_add(self, u256_add(u256_not(rhs), one))

RECURSIVE u256_sub(_, _)
u256_sub(self, rhs) ==
    IF u256_ge(self, rhs)
      THEN LET twos_complement_rhs == u256_add(u256_not(rhs), one)
           IN  u256_add(self, twos_complement_rhs)
      ELSE u256_sub(max, u256_sub(rhs, self))

RECURSIVE mul_loop(_, _, _, _)
mul_loop(a, i, self, rhs) ==
    IF u256_lt(i, rhs)
      THEN mul_loop(u256_add(a, self), u256_add(i, one), self, rhs)
      ELSE a

u256_mul(self, rhs) == mul_loop(self, one, self, rhs)

\* A loop condition of rem that stops one subtraction early.
rem_continue_strict(a, rhs) == u256_gt(a, rhs)

\* The condition of the while loop of rem.
rem_continue(a, rhs) == u256_ge(a, rhs)

RECURSIVE rem_loop(_, _)
rem_loop(a, rhs) ==
    IF rem_continue(a, rhs) THEN rem_loop(u256_sub(a, rhs), rhs) ELSE a

u256_rem(self, rhs) == rem_loop(self, rhs)

-----------------------------------------------------------------------------
(* Instruction table: instructions.rs *)

Push1 == 96
DUP1 == 128
SWAP1 == 144

\* The entries given to HashMap::from, keyed by opcode.
HashMap_from ==
    0 :> [value |-> 0, mnemonic |-> "STOP", stack_items_removed |-> 0, stack_items_added |-> 0, rom_items_used |-> 0, execute |-> "stop"]
    @@ 1 :> [value |-> 1, mnemonic |-> "ADD", stack_items_removed |-> 2, stack_items_added |-> 1, rom_items_used |-> 0, execute |-> "add"]
    @@ 2 :> [value |-> 2, mnemonic |-> "MUL", stack_items_removed |-> 2, stack_items_added |-> 1, rom_items_used |-> 0, execute |-> "mul"]
    @@ 3 :> [value |-> 3, mnemonic |-> "SUB", stack_items_removed |-> 2, stack_items_added |-> 1, rom_items_used |-> 0, execute |-> "sub"]
    @@ 4 :> [value |-> 4, mnemonic |-> "DIV", stack_items_removed |-> 2, stack_items_added |-> 1, rom_items_used |-> 0, execute |-> "todo"]
    @@ 5 :> [value |-> 5, mnemonic |-> "SDIV", stack_items_removed |-> 2, stack_items_added |-> 1, rom_items_used |-> 0, execute |-> "todo"]
    @@ 6 :> [value |-> 6, mnemonic |-> "MOD", stack_items_removed |-> 2, stack_items_added |-> 1, rom_items_used |-> 0, execute |-> "f_mod"]
    @@ 7 :> [value |-> 7, mnemonic |-> "SMOD", stack_items_removed |-> 2, stack_items_added |-> 1, rom_items_used |-> 0, execute |-> "todo"]
    @@ 8 :> [value |-> 8, mnemonic |-> "ADDMOD", stack_items_removed |-> 3, stack_items_added |-> 1, rom_items_used |-> 0, execute |-> "todo"]
    @@ 9 :> [value |-> 9, mnemonic |-> "MULMOD", stack_items_removed |-> 3, stack_items_added |-> 1, rom_items_used |-> 0, execute |-> "todo"]
    @@ 10 :> [value |-> 10, mnemonic |-> "EXP", stack_items_removed |-> 2, stack_items_added |-> 1, rom_items_used |-> 0, execute |-> "todo"]
    @@ 11 :> [value |-> 11, mnemonic |-> "SIGNEXTEND", stack_items_removed |-> 2, stack_items_added |-> 1, rom_items_used |-> 0, execute |-> "todo"]
    @@ 16 :> [value |-> 16, mnemonic |-> "LT", stack_items_removed |-> 2, stack_items_added |-> 1, rom_items_used |-> 0, execute |-> "todo"]
    @@ 17 :> [value |-> 17, mnemonic |-> "GT", stack_items_removed |-> 2, stack_items_added |-> 1, rom_items_used |-> 0, execute |-> "todo"]
    @@ 18 :> [value |-> 18, mnemonic |-> "SLT", stack_items_removed |-> 2, stack_items_added |-> 1, rom_items_used |-> 0, execute |-> "todo"]
    @@ 19 :> [value |-> 19, mnemonic |-> "SGT", stack_items_removed |-> 2, stack_items_added |-> 1, rom_items_used |-> 0, execute |-> "todo"]
    @@ 20 :> [value |-> 20, mnemonic |-> "EQ", stack_items_removed |-> 2, stack_items_added |-> 1, rom_items_used |-> 0, execute |-> "todo"]
    @@ 21 :> [value |-> 21, mnemonic |-> "ISZERO", stack_items_removed |-> 1, stack_items_added |-> 1, rom_items_used |-> 0, execute |-> "todo"]
    @@ 22 :> [value |-> 22, mnemonic |-> "AND", stack_items_removed |-> 2, stack_items_added |-> 1, rom_items_used |-> 0, execute |-> "todo"]
    @@ 23 :> [value |-> 23, mnemonic |-> "OR", stack_items_removed |-> 2, stack_items_added |-> 1, rom_items_used |-> 0, execute |-> "todo"]
    @@ 24 :> [value |-> 24, mnemonic |-> "XOR", stack_items_removed |-> 2, stack_items_added |-> 1, rom_items_used |-> 0, execute |-> "todo"]
    @@ 25 :> [value |-> 25, mnemonic |-> "NOT", stack_items_removed |-> 1, stack_items_added |-> 1, rom_items_used |-> 0, execute |-> "todo"]
    @@ 26 :> [value |-> 26, mnemonic |-> "BYTE", stack_items_removed |-> 2, stack_items_added |-> 1, rom_items_used |-> 0, execute |-> "todo"]
    @@ 27 :> [value |-> 27, mnemonic |-> "SHL", stack_items_removed |-> 2, stack_items_added |-> 1, rom_items_used |-> 0, execute |-> "todo"]
    @@ 28 :> [value |-> 28, mnemonic |-> "SHR", stack_items_removed |-> 2, stack_items_added |-> 1, rom_items_used |-> 0, execute |-> "todo"]
    @@ 29 :> [value |-> 29, mnemonic |-> "SAR", stack_items_removed |-> 2, stack_items_added |-> 1, rom_items_used |-> 0, execute |-> "todo"]
    @@ 32 :> [value |-> 32, mnemonic |-> "KECCAK256", stack_items_removed |-> 2, stack_items_added |-> 1, rom_items_used |-> 0, execute |-> "todo"]
    @@ 48 :> [value |-> 48, mnemonic |-> "ADDRESS", stack_items_removed |-> 0, stack_items_added |-> 1, rom_items_used |-> 0, execute |-> "todo"]
    @@ 49 :> [value |-> 49, mnemonic |-> "BALANCE", stack_items_removed |-> 1, stack_items_added |-> 1, rom_items_used |-> 0, execute |-> "todo"]
    @@ 50 :> [value |-> 50, mnemonic |-> "ORIGIN", stack_items_removed |-> 0, stack_items_added |-> 1, rom_items_used |-> 0, execute |-> "todo"]
    @@ 51 :> [value |-> 51, mnemonic |-> "CALLER", stack_items_removed |-> 0, stack_items_added |-> 1, rom_items_used |-> 0, execute |-> "todo"]
    @@ 52 :> [value |-> 52, mnemonic |-> "CALLVALUE", stack_items_removed |-> 0, stack_items_added |-> 1, rom_items_used |-> 0, execute |-> "todo"]
    @@ 53 :> [value |-> 53, mnemonic |-> "CALLDATALOAD", stack_items_removed |-> 1, stack_items_added |-> 1, rom_items_used |-> 0, execute |-> "todo"]
    @@ 54 :> [value |-> 54, mnemonic |-> "CALLDATASIZE", stack_items_removed |-> 0, stack_items_added |-> 1, rom_items_used |-> 0, execute |-> "todo"]
    @@ 55 :> [value |-> 55, mnemonic |-> "CALLDATACOPY", stack_items_removed |-> 3, stack_items_added |-> 0, rom_items_used |-> 0, execute |-> "todo"]
    @@ 56 :> [value |-> 56, mnemonic |-> "CODESIZE", stack_items_removed |-> 0, stack_items_added |-> 1, rom_items_used |-> 0, execute |-> "todo"]
    @@ 57 :> [value |-> 57, mnemonic |-> "CODECOPY", stack_items_removed |-> 3, stack_items_added |-> 0, rom_items_used |-> 0, execute |-> "todo"]
    @@ 58 :> [value |-> 58, mnemonic |-> "GASPRICE", stack_items_removed |-> 0, stack_items_added |-> 1, rom_items_used |-> 0, execute |-> "todo"]
    @@ 59 :> [value |-> 59, mnemonic |-> "EXTCODESIZE", stack_items_removed |-> 1, stack_items_added |-> 1, rom_items_used |-> 0, execute |-> "todo"]
    @@ 60 :> [value |-> 60, mnemonic |-> "EXTCODECOPY", stack_items_removed |-> 4, stack_items_added |-> 0, rom_items_used |-> 0, execute |-> "todo"]
    @@ 61 :> [value |-> 61, mnemonic |-> "RETURNDATASIZE", stack_items_removed |-> 0, stack_items_added |-> 1, rom_items_used |-> 0, execute |-> "todo"]
    @@ 62 :> [value |-> 62, mnemonic |-> "RETURNDATACOPY", stack_items_removed |-> 3, stack_items_added |-> 0, rom_items_used |-> 0, execute |-> "todo"]
    @@ 63 :> [value |-> 63, mnemonic |-> "EXTCODEHASH", stack_items_removed |-> 1, stack_items_added |-> 1, rom_items_used |-> 0, execute |-> "todo"]
    @@ 64 :> [value |-> 64, mnemonic |-> "BLOCKHASH", stack_items_removed |-> 1, stack_items_added |-> 1, rom_items_used |-> 0, execute |-> "todo"]
    @@ 65 :> [value |-> 65, mnemonic |-> "COINBASE", stack_items_removed |-> 0, stack_items_added |-> 1, rom_items_used |-> 0, execute |-> "todo"]
    @@ 66 :> [value |-> 66, mnemonic |-> "TIMESTAMP", stack_items_removed |-> 0, stack_items_added |-> 1, rom_items_used |-> 0, execute |-> "todo"]
    @@ 67 :> [value |-> 67, mnemonic |-> "NUMBER", stack_items_removed |-> 0, stack_items_added |-> 1, rom_items_used |-> 0, execute |-> "todo"]
    @@ 68 :> [value |-> 68, mnemonic |-> "DIFFICULTY", stack_items_removed |-> 0, stack_items_added |-> 1, rom_items_used |-> 0, execute |-> "todo"]
    @@ 69 :> [value |-> 69, mnemonic |-> "GASLIMIT", stack_items_removed |-> 0, stack_items_added |-> 1, rom_items_used |-> 0, execute |-> "todo"]
    @@ 70 :> [value |-> 70, mnemonic |-> "CHAINID", stack_items_removed |-> 0, stack_items_added |-> 1, rom_items_used |-> 0, execute |-> "todo"]
    @@ 71 :> [value |-> 71, mnemonic |-> "SELFBALANCE", stack_items_removed |-> 0, stack_items_added |-> 1, rom_items_used |-> 0, execute |-> "todo"]
    @@ 80 :> [value |-> 80, mnemonic |-> "POP", stack_items_removed |-> 1, stack_items_added |-> 0, rom_items_used |-> 0, execute |-> "todo"]
    @@ 81 :> [value |-> 81, mnemonic |-> "MLOAD", stack_items_removed |-> 1, stack_items_added |-> 1, rom_items_used |-> 0, execute |-> "todo"]
    @@ 82 :> [value |-> 82, mnemonic |-> "MSTORE", stack_items_removed |-> 2, stack_items_added |-> 0, rom_items_used |-> 0, execute |-> "todo"]
    @@ 83 :> [value |-> 83, mnemonic |-> "MSTORE8", stack_items_removed |-> 2, stack_items_added |-> 0, rom_items_used |-> 0, execute |-> "todo"]
    @@ 84 :> [value |-> 84, mnemonic |-> "SLOAD", stack_items_removed |-> 1, stack_items_added |-> 1, rom_items_used |-> 0, execute |-> "todo"]
    @@ 85 :> [value |-> 85, mnemonic |-> "SSTORE", stack_items_removed |-> 2, stack_items_added |-> 0, rom_items_used |-> 0, execute |-> "todo"]
    @@ 86 :> [value |-> 86, mnemonic |-> "JUMP", stack_items_removed |-> 1, stack_items_added |-> 0, rom_items_used |-> 0, execute |-> "todo"]
    @@ 87 :> [value |-> 87, mnemonic |-> "JUMPI", stack_items_removed |-> 2, stack_items_added |-> 0, rom_items_used |-> 0, execute |-> "todo"]
    @@ 88 :> [value |-> 88, mnemonic |-> "PC", stack_items_removed |-> 0, stack_items_added |-> 1, rom_items_used |-> 0, execute |-> "todo"]
    @@ 89 :> [value |-> 89, mnemonic |-> "MSIZE", stack_items_removed |-> 0, stack_items_added |-> 1, rom_items_used |-> 0, execute |-> "todo"]
    @@ 90 :> [value |-> 90, mnemonic |-> "GAS", stack_items_removed |-> 0, stack_items_added |-> 1, rom_items_used |-> 0, execute |-> "todo"]
    @@ 91 :> [value |-> 91, mnemonic |-> "JUMPDEST", stack_items_removed |-> 0, stack_items_added |-> 0, rom_items_used |-> 0, execute |-> "todo"]
    @@ 96 :> [value |-> 96, mnemonic |-> "PUSH1", stack_items_removed |-> 0, stack_items_added |-> 1, rom_items_used |-> 1, execute |-> "push"]
    @@ 97 :> [value |-> 97, mnemonic |-> "PUSH2", stack_items_removed |-> 0, stack_items_added |-> 1, rom_items_used |-> 2, execute |-> "push"]
    @@ 98 :> [value |-> 98, mnemonic |-> "PUSH3", stack_items_removed |-> 0, stack_items_added |-> 1, rom_items_used |-> 3, execute |-> "push"]
    @@ 99 :> [value |-> 99, mnemonic |-> "PUSH4", stack_items_removed |-> 0, stack_items_added |-> 1, rom_items_used |-> 4, execute |-> "push"]
    @@ 100 :> [value |-> 100, mnemonic |-> "PUSH5", stack_items_removed |-> 0, stack_items_added |-> 1, rom_items_used |-> 5, execute |-> "push"]
    @@ 101 :> [value |-> 101, mnemonic |-> "PUSH6", stack_items_removed |-> 0, stack_items_added |-> 1, rom_items_used |-> 6, execute |-> "push"]
    @@ 102 :> [value |-> 102, mnemonic |-> "PUSH7", stack_items_removed |-> 0, stack_items_added |-> 1, rom_items_used |-> 7, execute |-> "push"]
    @@ 103 :> [value |-> 103, mnemonic |-> "PUSH8", stack_items_removed |-> 0, stack_items_added |-> 1, rom_items_used |-> 8, execute |-> "push"]
    @@ 104 :> [value |-> 104, mnemonic |-> "PUSH9", stack_items_removed |-> 0, stack_items_added |-> 1, rom_items_used |-> 9, execute |-> "push"]
    @@ 105 :> [value |-> 105, mnemonic |-> "PUSH10", stack_items_removed |-> 0, stack_items_added |-> 1, rom_items_used |-> 10, execute |-> "push"]
    @@ 106 :> [value |-> 106, mnemonic |-> "PUSH11", stack_items_removed |-> 0, stack_items_added |-> 1, rom_items_used |-> 11, execute |-> "push"]
    @@ 107 :> [value |-> 107, mnemonic |-> "PUSH12", stack_items_removed |-> 0, stack_items_added |-> 1, rom_items_used |-> 12, execute |-> "push"]
    @@ 108 :> [value |-> 108, mnemonic |-> "PUSH13", stack_items_removed |-> 0, stack_items_added |-> 1, rom_items_used |-> 13, execute |-> "push"]
    @@ 109 :> [value |-> 109, mnemonic |-> "PUSH14", stack_items_removed |-> 0, stack_items_added |-> 1, rom_items_used |-> 14, execute |-> "push"]
    @@ 110 :> [value |-> 110, mnemonic |-> "PUSH15", stack_items_removed |-> 0, stack_items_added |-> 1, rom_items_used |-> 15, execute |-> "push"]
    @@ 111 :> [value |-> 111, mnemonic |-> "PUSH16", stack_items_removed |-> 0, stack_items_added |-> 1, rom_items_used |-> 16, execute |-> "push"]
    @@ 112 :> [value |-> 112, mnemonic |-> "PUSH17", stack_items_removed |-> 0, stack_items_added |-> 1, rom_items_used |-> 17, execute |-> "push"]
    @@ 113 :> [value |-> 113, mnemonic |-> "PUSH18", stack_items_removed |-> 0, stack_items_added |-> 1, rom_items_used |-> 18, execute |-> "push"]
    @@ 114 :> [value |-> 114, mnemonic |-> "PUSH19", stack_items_removed |-> 0, stack_items_added |-> 1, rom_items_used |-> 19, execute |-> "push"]
    @@ 115 :> [value |-> 115, mnemonic |-> "PUSH20", stack_items_removed |-> 0, stack_items_added |-> 1, rom_items_used |-> 20, execute |-> "push"]
    @@ 116 :> [value |-> 116, mnemonic |-> "PUSH21", stack_items_removed |-> 0, stack_items_added |-> 1, rom_items_used |-> 21, execute |-> "push"]
    @@ 117 :> [value |-> 117, mnemonic |-> "PUSH22", stack_items_removed |-> 0, stack_items_added |-> 1, rom_items_used |-> 22, execute |-> "push"]
    @@ 118 :> [value |-> 118, mnemonic |-> "PUSH23", stack_items_removed |-> 0, stack_items_added |-> 1, rom_items_used |-> 23, execute |-> "push"]
    @@ 119 :> [value |-> 119, mnemonic |-> "PUSH24", stack_items_removed |-> 0, stack_items_added |-> 1, rom_items_used |-> 24, execute |-> "push"]
    @@ 120 :> [value |-> 120, mnemonic |-> "PUSH25", stack_items_removed |-> 0, stack_items_added |-> 1, rom_items_used |-> 25, execute |-> "push"]
    @@ 121 :> [value |-> 121, mnemonic |-> "PUSH26", stack_items_removed |-> 0, stack_items_added |-> 1, rom_items_used |-> 26, execute |-> "push"]
    @@ 122 :> [value |-> 122, mnemonic |-> "PUSH27", stack_items_removed |-> 0, stack_items_added |-> 1, rom_items_used |-> 27, execute |-> "push"]
    @@ 123 :> [value |-> 123, mnemonic |-> "PUSH28", stack_items_removed |-> 0, stack_items_added |-> 1, rom_items_used |-> 28, execute |-> "push"]
    @@ 124 :> [value |-> 124, mnemonic |-> "PUSH29", stack_items_removed |-> 0, stack_items_added |-> 1, rom_items_used |-> 29, execute |-> "push"]
    @@ 125 :> [value |-> 125, mnemonic |-> "PUSH30", stack_items_removed |-> 0, stack_items_added |-> 1, rom_items_used |-> 30, execute |-> "push"]
    @@ 126 :> [value |-> 126, mnemonic |-> "PUSH31", stack_items_removed |-> 0, stack_items_added |-> 1, rom_items_used |-> 31, execute |-> "push"]
    @@ 127 :> [value |-> 127, mnemonic |-> "PUSH32", stack_items_removed |-> 0, stack_items_added |-> 1, rom_items_used |-> 32, execute |-> "push"]
    @@ 128 :> [value |-> 128, mnemonic |-> "DUP1", stack_items_removed |-> 1, stack_items_added |-> 2, rom_items_used |-> 0, execute |-> "todo"]
    @@ 129 :> [value |-> 129, mnemonic |-> "DUP2", stack_items_removed |-> 2, stack_items_added |-> 3, rom_items_used |-> 0, execute |-> "todo"]
    @@ 130 :> [value |-> 130, mnemonic |-> "DUP3", stack_items_removed |-> 3, stack_items_added |-> 4, rom_items_used |-> 0, execute |-> "todo"]
    @@ 131 :> [value |-> 131, mnemonic |-> "DUP4", stack_items_removed |-> 4, stack_items_added |-> 5, rom_items_used |-> 0, execute |-> "todo"]
    @@ 132 :> [value |-> 132, mnemonic |-> "DUP5", stack_items_removed |-> 5, stack_items_added |-> 6, rom_items_used |-> 0, execute |-> "todo"]
    @@ 133 :> [value |-> 133, mnemonic |-> "DUP6", stack_items_removed |-> 6, stack_items_added |-> 7, rom_items_used |-> 0, execute |-> "todo"]
    @@ 134 :> [value |-> 134, mnemonic |-> "DUP7", stack_items_removed |-> 7, stack_items_added |-> 8, rom_items_used |-> 0, execute |-> "todo"]
    @@ 135 :> [value |-> 135, mnemonic |-> "DUP8", stack_items_removed |-> 8, stack_items_added |-> 9, rom_items_used |-> 0, execute |-> "todo"]
    @@ 136 :> [value |-> 136, mnemonic |-> "DUP9", stack_items_removed |-> 9, stack_items_added |-> 10, rom_items_used |-> 0, execute |-> "todo"]
    @@ 137 :> [value |-> 137, mnemonic |-> "DUP10", stack_items_removed |-> 10, stack_items_added |-> 11, rom_items_used |-> 0, execute |-> "todo"]
    @@ 138 :> [value |-> 138, mnemonic |-> "DUP11", stack_items_removed |-> 11, stack_items_added |-> 12, rom_items_used |-> 0, execute |-> "todo"]
    @@ 139 :> [value |-> 139, mnemonic |-> "DUP12", stack_items_removed |-> 12, stack_items_added |-> 13, rom_items_used |-> 0, execute |-> "todo"]
    @@ 140 :> [value |-> 140, mnemonic |-> "DUP13", stack_items_removed |-> 13, stack_items_added |-> 14, rom_items_used |-> 0, execute |-> "todo"]
    @@ 141 :> [value |-> 141, mnemonic |-> "DUP14", stack_items_removed |-> 14, stack_items_added |-> 15, rom_items_used |-> 0, execute |-> "todo"]
    @@ 142 :> [value |-> 142, mnemonic |-> "DUP15", stack_items_removed |-> 15, stack_items_added |-> 16, rom_items_used |-> 0, execute |-> "todo"]
    @@ 143 :> [value |-> 143, mnemonic |-> "DUP16", stack_items_removed |-> 16, stack_items_added |-> 17, rom_items_used |-> 0, execute |-> "todo"]
    @@ 144 :> [value |-> 144, mnemonic |-> "SWAP1", stack_items_removed |-> 2, stack_items_added |-> 2, rom_items_used |-> 0, execute |-> "todo"]
    @@ 145 :> [value |-> 145, mnemonic |-> "SWAP2", stack_items_removed |-> 3, stack_items_added |-> 3, rom_items_used |-> 0, execute |-> "todo"]
    @@ 146 :> [value |-> 146, mnemonic |-> "SWAP3", stack_items_removed |-> 4, stack_items_added |-> 4, rom_items_used |-> 0, execute |-> "todo"]
    @@ 147 :> [value |-> 147, mnemonic |-> "SWAP4", stack_items_removed |-> 5, stack_items_added |-> 5, rom_items_used |-> 0, execute |-> "todo"]
    @@ 148 :> [value |-> 148, mnemonic |-> "SWAP5", stack_items_removed |-> 6, stack_items_added |-> 6, rom_items_used |-> 0, execute |-> "todo"]
    @@ 149 :> [value |-> 149, mnemonic |-> "SWAP6", stack_items_removed |-> 7, stack_items_added |-> 7, rom_items_used |-> 0, execute |-> "todo"]
    @@ 150 :> [value |-> 150, mnemonic |-> "SWAP7", stack_items_removed |-> 8, stack_items_added |-> 8, rom_items_used |-> 0, execute |-> "todo"]
    @@ 151 :> [value |-> 151, mnemonic |-> "SWAP8", stack_items_removed |-> 9, stack_items_added |-> 9, rom_items_used |-> 0, execute |-> "todo"]
    @@ 152 :> [value |-> 152, mnemonic |-> "SWAP9", stack_items_removed |-> 10, stack_items_added |-> 10, rom_items_used |-> 0, execute |-> "todo"]
    @@ 153 :> [value |-> 153, mnemonic |-> "SWAP10", stack_items_removed |-> 11, stack_items_added |-> 11, rom_items_used |-> 0, execute |-> "todo"]
    @@ 154 :> [value |-> 154, mnemonic |-> "SWAP11", stack_items_removed |-> 12, stack_items_added |-> 12, rom_items_used |-> 0, execute |-> "todo"]
    @@ 155 :> [value |-> 155, mnemonic |-> "SWAP12", stack_items_removed |-> 13, stack_items_added |-> 13, rom_items_used |-> 0, execute |-> "todo"]
    @@ 156 :> [value |-> 156, mnemonic |-> "SWAP13", stack_items_removed |-> 14, stack_items_added |-> 14, rom_items_used |-> 0, execute |-> "todo"]
    @@ 157 :> [value |-> 157, mnemonic |-> "SWAP14", stack_items_removed |-> 15, stack_items_added |-> 15, rom_items_used |-> 0, execute |-> "todo"]
    @@ 158 :> [value |-> 158, mnemonic |-> "SWAP15", stack_items_removed |-> 16, stack_items_added |-> 16, rom_items_used |-> 0, execute |-> "todo"]
    @@ 159 :> [value |-> 159, mnemonic |-> "SWAP16", stack_items_removed |-> 17, stack_items_added |-> 17, rom_items_used |-> 0, execute |-> "todo"]
    @@ 160 :> [value |-> 160, mnemonic |-> "LOG0", stack_items_removed |-> 2, stack_items_added |-> 0, rom_items_used |-> 0, execute |-> "todo"]
    @@ 161 :> [value |-> 161, mnemonic |-> "LOG1", stack_items_removed |-> 3, stack_items_added |-> 0, rom_items_used |-> 0, execute |-> "todo"]
    @@ 162 :> [value |-> 162, mnemonic |-> "LOG2", stack_items_removed |-> 4, stack_items_added |-> 0, rom_items_used |-> 0, execute |-> "todo"]
    @@ 163 :> [value |-> 163, mnemonic |-> "LOG3", stack_items_removed |-> 5, stack_items_added |-> 0, rom_items_used |-> 0, execute |-> "todo"]
    @@ 164 :> [value |-> 164, mnemonic |-> "LOG4", stack_items_removed |-> 6, stack_items_added |-> 0, rom_items_used |-> 0, execute |-> "todo"]
    @@ 240 :> [value |-> 240, mnemonic |-> "CREATE", stack_items_removed |-> 3, stack_items_added |-> 1, rom_items_used |-> 0, execute |-> "todo"]
    @@ 241 :> [value |-> 241, mnemonic |-> "CALL", stack_items_removed |-> 7, stack_items_added |-> 1, rom_items_used |-> 0, execute |-> "todo"]
    @@ 242 :> [value |-> 242, mnemonic |-> "CALLCODE", stack_items_removed |-> 7, stack_items_added |-> 1, rom_items_used |-> 0, execute |-> "todo"]
    @@ 243 :> [value |-> 243, mnemonic |-> "RETURN", stack_items_removed |-> 2, stack_items_added |-> 0, rom_items_used |-> 0, execute |-> "todo"]
    @@ 244 :> [value |-> 244, mnemonic |-> "DELEGATECALL", stack_items_removed |-> 6, stack_items_added |-> 1, rom_items_used |-> 0, execute |-> "todo"]
    @@ 245 :> [value |-> 245, mnemonic |-> "CREATE2", stack_items_removed |-> 4, stack_items_added |-> 1, rom_items_used |-> 0, execute |-> "todo"]
    @@ 250 :> [value |-> 250, mnemonic |-> "STATICCALL", stack_items_removed |-> 6, stack_items_added |-> 1, rom_items_used |-> 0, execute |-> "todo"]
    @@ 253 :> [value |-> 253, mnemonic |-> "REVERT", stack_items_removed |-> 2, stack_items_added |-> 0, rom_items_used |-> 0, execute |-> "todo"]
    @@ 254 :> [value |-> 254, mnemonic |-> "INVALID", stack_items_removed |-> 0, stack_items_added |-> 0, rom_items_used |-> 0, execute |-> "todo"]
    @@ 255 :> [value |-> 255, mnemonic |-> "SELFDESTRUCT", stack_items_removed |-> 1, stack_items_added |-> 0, rom_items_used |-> 0, execute |-> "todo"]

\* A table whose DUPn entries declare what DUPn does to the stack when it
\* runs: nothing removed, one word added.
Instructions_dup_as_executed ==
    [o \in DOMAIN HashMap_from |->
        IF o \in DUP1..(DUP1 + 15)
          THEN [HashMap_from[o] EXCEPT !.stack_items_removed = 0,
                                       !.stack_items_added = 1]
          ELSE HashMap_from[o]]

\* The static table of instruction descriptors.
Instructions == HashMap_from

-----------------------------------------------------------------------------
(* Rom and Stack: program_context.rs *)

\* A next_byte that advances the program counter before the bounds test.
next_byte_increment_first(p) ==
    IF p < size
      THEN [kind |-> "Ok", byte |-> rom[p + 1], pc |-> p + 1]
      ELSE IF size = 0 /\ overflow_checks
             THEN [kind |-> "Panic", pc |-> p + 1]
             ELSE [kind |-> "Err", pc |-> p + 1]

\* Rom::next_byte at program counter p.  "Ok" carries the byte and the
\* incremented pc.  Building the error evaluates size - 1 on a usize: with
\* size = 0 that panics when overflow checks are compiled in and wraps
\* otherwise.
next_byte(p) ==
    IF p < size
      THEN [kind |-> "Ok", byte |-> rom[p + 1], pc |-> p + 1]
      ELSE IF size = 0 /\ overflow_checks
             THEN [kind |-> "Panic", pc |-> p]
             ELSE [kind |-> "Err", pc |-> p]

\* Stack::push: the depth test only prints, the value is always pushed.
Stack_push(s, value) == Append(s, value)

\* Stack::pop: the depth test only prints, then Vec::pop().unwrap().
Stack_pop(s) ==
    IF Len(s) < 1
      THEN [panic |-> TRUE, stack |-> s]
      ELSE [panic |-> FALSE, value |-> s[Len(s)], stack |-> SubSeq(s, 1, Len(s) - 1)]

-----------------------------------------------------------------------------
(* Handlers: instructions.rs.  A handler takes the opcode and the context    *)
(* c = [pc, stack] and yields the context it leaves and what it returned:    *)
(* "Ok", "Stopped", "ROMOutOfBounds", or "Panic" when it unwinds.            *)

UNWRAP_NONE == "called Option::unwrap() on a None value"
SUB_OVERFLOW == "attempt to subtract with overflow"

Returned(r, p, s) == [result |-> r, pc |-> p, stack |-> s, panic_msg |-> ""]
Unwound(msg, p, s) == [result |-> "Panic", pc |-> p, stack |-> s, panic_msg |-> msg]

\* A todo that pushes as many zero words as its descriptor declares added.
todo_pushes_declared(op, c) ==
    Returned("Ok", c.pc,
             c.stack \o [i \in 1..Instructions[op].stack_items_added |-> zero])

todo(op, c) == Returned("Ok", c.pc, c.stack)

\* A stop that puts the program counter back on its own opcode.
stop_rewinds(op, c) == Returned("Stopped", c.pc - 1, c.stack)

stop(op, c) == Returned("Stopped", c.pc, c.stack)

add(op, c) ==
    LET a == Stack_pop(c.stack) IN
    IF a.panic THEN Unwound(UNWRAP_NONE, c.pc, a.stack) ELSE
    LET b == Stack_pop(a.stack) IN
    IF b.panic THEN Unwound(UNWRAP_NONE, c.pc, b.stack) ELSE
    Returned("Ok", c.pc, Stack_push(b.stack, u256_add(a.value, b.value)))

mul(op, c) ==
    LET a == Stack_pop(c.stack) IN
    IF a.panic THEN Unwound(UNWRAP_NONE, c.pc, a.stack) ELSE
    LET b == Stack_pop(a.stack) IN
    IF b.panic THEN Unwound(UNWRAP_NONE, c.pc, b.stack) ELSE
    Returned("Ok", c.pc, Stack_push(b.stack, u256_mul(a.value, b.value)))

sub(op, c) ==
    LET a == Stack_pop(c.stack) IN
    IF a.panic THEN Unwound(UNWRAP_NONE, c.pc, a.stack) ELSE
    LET b == Stack_pop(a.stack) IN
    IF b.panic THEN Unwound(UNWRAP_NONE, c.pc, b.stack) ELSE
    Returned("Ok", c.pc, Stack_push(b.stack, u256_sub(a.value, b.value)))

\* An f_mod whose result starts as a instead of zero.
f_mod_init_a(op, c) ==
    LET a == Stack_pop(c.stack) IN
    IF a.panic THEN Unwound(UNWRAP_NONE, c.pc, a.stack) ELSE
    LET b == Stack_pop(a.stack) IN
    IF b.panic THEN Unwound(UNWRAP_NONE, c.pc, b.stack) ELSE
    LET res == IF ~u256_eq(b.value, zero) THEN u256_rem(a.value, b.value) ELSE a.value
    IN  Returned("Ok", c.pc, Stack_push(b.stack, res))

f_mod(op, c) ==
    LET a == Stack_pop(c.stack) IN
    IF a.panic THEN Unwound(UNWRAP_NONE, c.pc, a.stack) ELSE
    LET b == Stack_pop(a.stack) IN
    IF b.panic THEN Unwound(UNWRAP_NONE, c.pc, b.stack) ELSE
    LET res == IF ~u256_eq(b.value, zero) THEN u256_rem(a.value, b.value) ELSE zero
    IN  Returned("Ok", c.pc, Stack_push(b.stack, res))

\* A loop of push that takes a failed next_byte for a read byte.
RECURSIVE push_loop_error_ignored(_, _)
push_loop_error_ignored(push_num, p) ==
    IF push_num > 0
      THEN LET n == next_byte(p)
           IN  IF n.kind = "Ok" THEN push_loop_error_ignored(push_num - 1, n.pc)
                                ELSE [kind |-> "Ok", pc |-> n.pc]
      ELSE [kind |-> "Ok", pc |-> p]

\* The loop of push: push_num calls of next_byte, left at the first failure.
RECURSIVE push_loop(_, _)
push_loop(push_num, p) ==
    IF push_num > 0
      THEN LET n == next_byte(p)
           IN  IF n.kind = "Ok" THEN push_loop(push_num - 1, n.pc)
                                ELSE [kind |-> n.kind, pc |-> n.pc]
      ELSE [kind |-> "Ok", pc |-> p]

\* A push whose data is the last immediate byte read.
push_last_byte(op, c) ==
    LET push_num == op + 1 - Push1
        read == push_loop(push_num, c.pc)
    IN  CASE read.kind = "Ok" ->
               Returned("Ok", read.pc, Stack_push(c.stack, from_u8(rom[read.pc])))
          [] read.kind = "Err" -> Returned("ROMOutOfBounds", read.pc, c.stack)
          [] read.kind = "Panic" -> Unwound(SUB_OVERFLOW, read.pc, c.stack)

\* push: data starts as zero and the line that accumulates the bytes read is
\* commented out, so data is still zero when it is pushed.
push(op, c) ==
    LET push_num == op + 1 - Push1
        data == zero
        read == push_loop(push_num, c.pc)
    IN  CASE read.kind = "Ok" -> Returned("Ok", read.pc, Stack_push(c.stack, data))
          [] read.kind = "Err" -> Returned("ROMOutOfBounds", read.pc, c.stack)
          [] read.kind = "Panic" -> Unwound(SUB_OVERFLOW, read.pc, c.stack)

\* Instruction::execute: call the descriptor's handler with its opcode value.
execute(instruction, c) ==
    CASE instruction.execute = "todo" -> todo(instruction.value, c)
      [] instruction.execute = "stop" -> stop(instruction.value, c)
      [] instruction.execute = "add" -> add(instruction.value, c)
      [] instruction.execute = "mul" -> mul(instruction.value, c)
      [] instruction.execute = "sub" -> sub(instruction.value, c)
      [] instruction.execute = "f_mod" -> f_mod(instruction.value, c)
      [] instruction.execute = "push" -> push(instruction.value, c)

-----------------------------------------------------------------------------
(* Disassembler: Rom::disassemble, program_context.rs *)

\* format!("  {:6}", mnemonic) and format!("  {:#04x}", byte) as tokens.
mnemonic_token(mnemonic) == [kind |-> "mnemonic", text |-> mnemonic]
hex_token(byte) == [kind |-> "hex", hi |-> byte \div 16, lo |-> byte % 16]

\* An inner loop that leaves the last immediate unread.
RECURSIVE rom_args_loop_one_short(_, _, _)
rom_args_loop_one_short(rom_args, p, line) ==
    IF rom_args > 1
      THEN LET n == next_byte(p)
           IN  IF n.kind = "Ok"
                 THEN rom_args_loop_one_short(rom_args - 1, n.pc,
                                              Append(line, hex_token(n.byte)))
                 ELSE [kind |-> n.kind, pc |-> n.pc, line |-> line]
      ELSE [kind |-> "Ok", pc |-> p, line |-> line]

\* The inner while loop: rom_args immediates appended to the line.
RECURSIVE rom_args_loop(_, _, _)
rom_args_loop(rom_args, p, line) ==
    IF rom_args > 0
      THEN LET n == next_byte(p)
           IN  IF n.kind = "Ok"
                 THEN rom_args_loop(rom_args - 1, n.pc, Append(line, hex_token(n.byte)))
                 ELSE [kind |-> n.kind, pc |-> n.pc, line |-> line]
      ELSE [kind |-> "Ok", pc |-> p, line |-> line]

\* A disassemble whose unknown opcodes print an empty line.
disassemble_line_unknown_blank(p) ==
    LET f == next_byte(p) IN
    IF f.kind # "Ok" THEN [kind |-> f.kind, pc |-> f.pc, line |-> <<>>]
    ELSE IF f.byte \in DOMAIN Instructions
      THEN LET instruction == Instructions[f.byte]
           IN  rom_args_loop(instruction.rom_items_used, f.pc,
                             <<mnemonic_token(instruction.mnemonic)>>)
      ELSE [kind |-> "Ok", pc |-> f.pc, line |-> <<>>]

\* One iteration of the loop of disassemble, from the fetch to the println.
disassemble_line(p) ==
    LET f == next_byte(p) IN
    IF f.kind # "Ok" THEN [kind |-> f.kind, pc |-> f.pc, line |-> <<>>]
    ELSE IF f.byte \in DOMAIN Instructions
      THEN LET instruction == Instructions[f.byte]
           IN  rom_args_loop(instruction.rom_items_used, f.pc,
                             <<mnemonic_token(instruction.mnemonic)>>)
      ELSE [kind |-> "Ok", pc |-> f.pc, line |-> <<hex_token(f.byte)>>]

-----------------------------------------------------------------------------
(* Inputs *)

INVALID == 254
LT == 16
GT == 17
JUMP == 86
JUMPDEST == 91

\* The scenario ROMs of the specification.
Rom_PushAdd == <<96, 10, 96, 32, 1, 0>>
Rom_SubWrap == <<96, 0, 96, 1, 3, 0>>
Rom_DivZero == <<96, 0, 96, 5, 4, 0>>
Rom_InvalidJump == <<96, 3, 86, 0>>
Rom_ValidJump == <<96, 4, 86, 0, 91, 0>>
Rom_Underflow == <<1, 0>>
\* DUP1..DUP16 followed by SWAP1..SWAP16
Rom_DupSwap == [i \in 1..32 |-> DUP1 + i - 1]
\* five PUSH1, then ADD, MUL, SUB, MOD
Rom_Arith == <<96, 7, 96, 9, 96, 1, 96, 2, 96, 3, 1, 2, 3, 6>>

\* Stack::push tests len() > 1023: the documented depth limit is 1024.
STACK_LIMIT == 1024

\* STACK_LIMIT + 1 times PUSH1 00: the shortest kind of ROM that takes the
\* stack past the limit.
Rom_Deep == [i \in 1..(2 * (STACK_LIMIT + 1)) |-> IF i % 2 = 1 THEN Push1 ELSE 0]

\* STOP, ADD, MUL, SUB, DIV, an undefined byte, ADDRESS, PUSH1, PUSH2, INVALID
RomBytes == {0, 1, 2, 3, 4, 12, 48, 96, 97, 254}

Roms ==
    UNION {[1..n -> RomBytes] : n \in 0..MaxRomLen}
    \cup {Rom_PushAdd, Rom_SubWrap, Rom_DivZero, Rom_InvalidJump,
          Rom_ValidJump, Rom_Underflow, Rom_DupSwap, Rom_Arith, Rom_Deep}

-----------------------------------------------------------------------------
(* The program *)

\* load_rom_from_file, Rom::from_string and ProgramContext::new
Init ==
    /\ mode \in {"run", "disassemble"}
    /\ overflow_checks \in BOOLEAN
    /\ rom \in Roms
    /\ pc = 0
    /\ size = Len(rom)
    /\ stack = <<>>
    /\ memory = <<>>
    /\ storage = <<>>
    /\ status = "Running"
    /\ panic_msg = ""
    /\ opcode = -1
    /\ result = "None"
    /\ lines = <<>>
    /\ opx = zero /\ opy = zero /\ oper = "none" /\ ret = zero /\ acc = zero
    /\ ap = "off"

\* run: next_byte fails; the error is printed and the loop is left.
RunFetchFail ==
    /\ mode = "run" /\ status = "Running"
    /\ LET f == next_byte(pc) IN
       /\ f.kind # "Ok"
       /\ pc' = f.pc
       /\ status' = IF f.kind = "Panic" THEN "Panicked" ELSE "Exited"
       /\ panic_msg' = IF f.kind = "Panic" THEN SUB_OVERFLOW ELSE ""
    /\ UNCHANGED <<mode, overflow_checks, rom, size, stack, memory, storage,
                   opcode, result, lines>>
    /\ UNCHANGED arith

\* run: the opcode has a descriptor; its handler runs and its Result is dropped.
RunDispatch ==
    /\ mode = "run" /\ status = "Running"
    /\ LET f == next_byte(pc) IN
       /\ f.kind = "Ok"
       /\ f.byte \in DOMAIN Instructions
       /\ LET h == execute(Instructions[f.byte], [pc |-> f.pc, stack |-> stack]) IN
          /\ pc' = h.pc
          /\ stack' = h.stack
          /\ result' = h.result
          /\ status' = IF h.result = "Panic" THEN "Panicked" ELSE "Running"
          /\ panic_msg' = h.panic_msg
       /\ opcode' = f.byte
    /\ UNCHANGED <<mode, overflow_checks, rom, size, memory, storage, lines>>
    /\ UNCHANGED arith

\* run: the opcode has no descriptor; a message is printed and the loop goes on.
RunMissing ==
    /\ mode = "run" /\ status = "Running"
    /\ LET f == next_byte(pc) IN
       /\ f.kind = "Ok"
       /\ f.byte \notin DOMAIN Instructions
       /\ pc' = f.pc
       /\ opcode' = f.byte
    /\ result' = "Missing"
    /\ UNCHANGED <<mode, overflow_checks, rom, size, stack, memory, storage,
                   status, panic_msg, lines>>
    /\ UNCHANGED arith

\* disassemble: one iteration of the loop prints one line.
DisassembleLine ==
    /\ mode = "disassemble" /\ status = "Running"
    /\ LET d == disassemble_line(pc) IN
       /\ d.kind = "Ok"
       /\ pc' = d.pc
       /\ lines' = Append(lines, d.line)
    /\ UNCHANGED <<mode, overflow_checks, rom, size, stack, memory, storage,
                   status, panic_msg, opcode, result>>
    /\ UNCHANGED arith

\* disassemble: a next_byte fails, `?` returns the error (main prints it) and
\* the line under construction is dropped.  result records what
\* Rom::disassemble returned to main.
DisassembleEnd ==
    /\ mode = "disassemble" /\ status = "Running"
    /\ LET d == disassemble_line(pc) IN
       /\ d.kind # "Ok"
       /\ pc' = d.pc
       /\ status' = IF d.kind = "Panic" THEN "Panicked" ELSE "Exited"
       /\ panic_msg' = IF d.kind = "Panic" THEN SUB_OVERFLOW ELSE ""
       /\ result' = IF d.kind = "Panic" THEN "Panic" ELSE "ROMOutOfBounds"
    /\ UNCHANGED <<mode, overflow_checks, rom, size, stack, memory, storage,
                   opcode, lines>>
    /\ UNCHANGED arith

Next ==
    \/ RunFetchFail
    \/ RunDispatch
    \/ RunMissing
    \/ DisassembleLine
    \/ DisassembleEnd

Spec == Init /\ [][Next]_vars

\* The program started with the run command, built with the default profile
\* (overflow checks on); the build only matters to the empty ROM.
InitRun == Init /\ mode = "run" /\ overflow_checks

NextRun ==
    \/ RunFetchFail
    \/ RunDispatch
    \/ RunMissing

\* The loop of run is a single thread that is never suspended: an iteration
\* that can be taken is taken.
SpecRunFair == InitRun /\ [][NextRun]_vars /\ WF_vars(NextRun)

-----------------------------------------------------------------------------
(* The u256 operators and the arithmetic handlers applied to chosen         *)
(* operands, the way the unit tests of types.rs apply the operators.        *)

\* The loops of mul and rem are followed for at most MaxIter iterations.
MaxIter == 8

\* The unsigned integer a u256 stands for, and the u256 of an integer.
Value(x) == x.upper * HalfMod + x.lower
U256Mod == HalfMod * HalfMod
FromValue(v) == from_u128s(v \div HalfMod, v % HalfMod)

HalfSamples == {0, 1, 2, 3, 10, 12, HalfMod \div 2, HalfMod - 1}
U256Samples == {from_u128s(u, l) : u, l \in HalfSamples}
Bases == {<<>>, <<max, one>>}

\* May the loop of opx % opy be followed to its end.
RemBounded == IF opy = zero THEN TRUE ELSE Value(opx) \div Value(opy) <= MaxIter

\* The operands are on the stack as well, opx on top of opy.
InitArith ==
    /\ mode = "test"
    /\ overflow_checks = TRUE
    /\ rom = <<>>
    /\ pc = 0
    /\ size = 0
    /\ memory = <<>>
    /\ storage = <<>>
    /\ status = "Running"
    /\ panic_msg = ""
    /\ opcode = -1
    /\ result = "None"
    /\ lines = <<>>
    /\ opx \in U256Samples
    /\ opy \in U256Samples
    /\ stack \in {base \o <<opy, opx>> : base \in Bases}
    /\ oper = "none" /\ ret = zero /\ acc = zero
    /\ ap = "idle"

\* opx + opy
TestAdd ==
    /\ ap = "idle"
    /\ oper' = "add"
    /\ ret' = u256_add(opx, opy)
    /\ ap' = "done"
    /\ UNCHANGED <<opx, opy, acc, stack, result, machine>>

\* opx - opy
TestSub ==
    /\ ap = "idle"
    /\ oper' = "sub"
    /\ ret' = u256_sub(opx, opy)
    /\ ap' = "done"
    /\ UNCHANGED <<opx, opy, acc, stack, result, machine>>

\* opx * opy
TestMul ==
    /\ ap = "idle"
    /\ Value(opy) <= MaxIter
    /\ oper' = "mul"
    /\ ret' = u256_mul(opx, opy)
    /\ ap' = "done"
    /\ UNCHANGED <<opx, opy, acc, stack, result, machine>>

\* opx % opy, entry: let mut acc = self
RemStart ==
    /\ ap = "idle"
    /\ RemBounded
    /\ oper' = "rem"
    /\ acc' = opx
    /\ ap' = "rem_test"
    /\ UNCHANGED <<opx, opy, ret, stack, result, machine>>

\* opx % opy, the test of the while loop; rem returns acc when it fails
RemTest ==
    /\ ap = "rem_test"
    /\ IF rem_continue(acc, opy)
         THEN ap' = "rem_body" /\ ret' = ret
         ELSE ap' = "done" /\ ret' = acc
    /\ UNCHANGED <<opx, opy, oper, acc, stack, result, machine>>

\* opx % opy, the body of the while loop: acc = acc - rhs
RemBody ==
    /\ ap = "rem_body"
    /\ acc' = u256_sub(acc, opy)
    /\ ap' = "rem_test"
    /\ UNCHANGED <<opx, opy, oper, ret, stack, result, machine>>

\* The handler of ADD (0x01) applied to the stack.
HandlerAdd ==
    /\ ap = "idle"
    /\ LET h == execute(Instructions[1], [pc |-> pc, stack |-> stack]) IN
       /\ stack' = h.stack
       /\ result' = h.result
    /\ oper' = "ADD"
    /\ ap' = "done"
    /\ UNCHANGED <<opx, opy, ret, acc, machine>>

\* The handler of SUB (0x03) applied to the stack.
HandlerSub ==
    /\ ap = "idle"
    /\ LET h == execute(Instructions[3], [pc |-> pc, stack |-> stack]) IN
       /\ stack' = h.stack
       /\ result' = h.result
    /\ oper' = "SUB"
    /\ ap' = "done"
    /\ UNCHANGED <<opx, opy, ret, acc, machine>>

\* The handler of MOD (0x06) applied to the stack.
HandlerMod ==
    /\ ap = "idle"
    /\ RemBounded
    /\ LET h == execute(Instructions[6], [pc |-> pc, stack |-> stack]) IN
       /\ stack' = h.stack
       /\ result' = h.result
    /\ oper' = "MOD"
    /\ ap' = "done"
    /\ UNCHANGED <<opx, opy, ret, acc, machine>>

\* opx compared with opy by ==, <, <=, >, >= and partial_cmp
TestCmp ==
    /\ ap = "idle"
    /\ oper' = "cmp"
    /\ ret' = [eq |-> u256_eq(opx, opy),
               lt |-> u256_lt(opx, opy),
               le |-> u256_le(opx, opy),
               gt |-> u256_gt(opx, opy),
               ge |-> u256_ge(opx, opy),
               partial_cmp |-> partial_cmp(opx, opy)]
    /\ ap' = "done"
    /\ UNCHANGED <<opx, opy, acc, stack, result, machine>>

\* The handler of LT (0x10) applied to the stack.
HandlerLt ==
    /\ ap = "idle"
    /\ LET h == execute(Instructions[LT], [pc |-> pc, stack |-> stack]) IN
       /\ stack' = h.stack
       /\ result' = h.result
    /\ oper' = "LT"
    /\ ap' = "done"
    /\ UNCHANGED <<opx, opy, ret, acc, machine>>

\* The handler of GT (0x11) applied to the stack.
HandlerGt ==
    /\ ap = "idle"
    /\ LET h == execute(Instructions[GT], [pc |-> pc, stack |-> stack]) IN
       /\ stack' = h.stack
       /\ result' = h.result
    /\ oper' = "GT"
    /\ ap' = "done"
    /\ UNCHANGED <<opx, opy, ret, acc, machine>>

\* The loop-free operators and their handlers.
NextArith ==
    \/ TestAdd
    \/ TestSub
    \/ TestMul
    \/ HandlerAdd
    \/ HandlerSub

SpecArith == InitArith /\ [][NextArith]_vars

\* The comparisons and their handlers.
NextCmp ==
    \/ TestCmp
    \/ HandlerLt
    \/ HandlerGt

SpecCmp == InitArith /\ [][NextCmp]_vars

\* The remainder, its loop taken step by step, and its handler.
NextRem ==
    \/ RemStart
    \/ RemTest
    \/ RemBody
    \/ HandlerMod

SpecRem == InitArith /\ [][NextRem]_vars

\* A running loop keeps running: the single thread is never suspended.
SpecRemFair == SpecRem /\ WF_vars(NextRem)

-----------------------------------------------------------------------------
(* Properties *)

StackValues == [i \in 1..Len(stack) |-> Value(stack[i])]

\* The big-endian integer of a byte sequence, reduced to the width of a u256.
RECURSIVE BigEndian(_)
BigEndian(bytes) ==
    IF bytes = <<>> THEN 0
    ELSE (BigEndian(SubSeq(bytes, 1, Len(bytes) - 1)) * 256 + bytes[Len(bytes)])
             % (HalfMod * HalfMod)

\* C1: running PUSH1 10, PUSH1 32, ADD, STOP ends in the normal halt with the
\* stack equal to [42].
C1_PushAddScenario ==
    (mode = "run" /\ rom = Rom_PushAdd /\ status # "Running")
        => (status = "Exited" /\ StackValues = <<42>>)

\* C2: a PUSHn followed by at least n bytes pushes exactly one value, the
\* big-endian integer of those n bytes, and moves PC by n past the opcode.
C2_PushBigEndian ==
    [][\A n \in 1..32 :
          (/\ mode = "run" /\ status = "Running"
           /\ pc < size /\ rom[pc + 1] = Push1 + n - 1
           /\ pc + 1 + n <= size)
          => /\ pc' = pc + 1 + n
             /\ Len(stack') = Len(stack) + 1
             /\ SubSeq(stack', 1, Len(stack)) = stack
             /\ Value(stack'[Len(stack')]) = BigEndian(SubSeq(rom, pc + 2, pc + 1 + n))
      ]_vars

\* C3: once STOP has been executed no later opcode is fetched or dispatched:
\* the program counter does not move again.
C3_StopHalts ==
    [][(mode = "run" /\ result = "Stopped") => (pc' = pc /\ opcode' = opcode)]_vars

\* C4: an opcode fetch at PC = N ends the run in the normal halt, not in a
\* fault, and leaves the stack as it was.
C4_FetchAtEndHalts ==
    [][(mode = "run" /\ status = "Running" /\ pc = size)
          => (status' = "Exited" /\ stack' = stack)]_vars

\* C5: a run in which a PUSHn was cut short by the end of the ROM does not end
\* in the normal halt that a bare fetch at PC = N reaches.
C5_TruncatedPushFaults ==
    (mode = "run" /\ result = "ROMOutOfBounds" /\ status # "Running")
        => status # "Exited"

\* C6: after the fetch of a byte without a descriptor, or of INVALID (0xfe),
\* no further instruction is dispatched and the run does not halt normally.
C6_InvalidOpcodeFaults ==
    [][(/\ mode = "run" /\ status = "Running" /\ opcode # -1
        /\ (opcode \notin DOMAIN Instructions \/ opcode = INVALID))
          => (pc' = pc /\ opcode' = opcode /\ status' # "Exited")]_vars

\* C7: the depth of the operand stack never exceeds 1024.
C7_StackDepthBounded == Len(stack) <= STACK_LIMIT

\* C8: a pop from the empty stack is reported as an error outcome; it never
\* aborts the program.
C8_UnderflowIsReported ==
    ~(mode = "run" /\ status = "Panicked" /\ panic_msg = UNWRAP_NONE)

\* C9: every step whose handler returns success changes the stack depth by the
\* descriptor's declared stack_items_added - stack_items_removed.
C9_DeclaredStackEffect ==
    [][(mode = "run" /\ status = "Running" /\ pc' # pc /\ result' = "Ok")
          => Len(stack') = Len(stack) - Instructions[opcode'].stack_items_removed
                                      + Instructions[opcode'].stack_items_added
      ]_vars

\* C10: 0 <= PC <= N in every reachable state of the interpreter and of the
\* disassembler, N being the length of the ROM, also after a failed next_byte.
C10_PcInRange == 0 <= pc /\ pc <= size /\ size = Len(rom)

\* C10 witness: a next_byte has failed at the end of a non-empty ROM.
C10_Witness == status = "Exited" /\ pc = size /\ size > 0

\* C11: next_byte called with PC < N returns B[PC] and increases PC by one;
\* called with PC = N it returns the ROMOutOfBounds error and leaves PC alone.
C11_NextByte ==
    status = "Running" =>
        LET r == next_byte(pc) IN
        IF pc < size
          THEN r.kind = "Ok" /\ r.byte = rom[pc + 1] /\ r.pc = pc + 1
          ELSE r.kind = "Err" /\ r.pc = pc

\* C12: on a stack with top a1 over a2 the ADD handler leaves a1 + a2 and the
\* SUB handler a1 - a2 (modulo 2^256) in their place, the items below untouched.
C12_AddSubHandlers ==
    [][(ap = "idle" /\ oper' \in {"ADD", "SUB"})
          => /\ result' = "Ok"
             /\ stack' = Append(SubSeq(stack, 1, Len(stack) - 2),
                                FromValue(IF oper' = "ADD"
                                            THEN (Value(opx) + Value(opy)) % U256Mod
                                            ELSE (Value(opx) - Value(opy) + U256Mod) % U256Mod))
      ]_vars

\* C13: running PUSH1 0, PUSH1 1, SUB, STOP ends with the stack equal to
\* [2^256 - 1].
C13_SubWrapScenario ==
    (mode = "run" /\ rom = Rom_SubWrap /\ status # "Running")
        => (status = "Exited" /\ StackValues = <<U256Mod - 1>>)

\* C14: x + y is (x + y) mod 2^256 for all x and y, the carry of the low half
\* going into the high half and the carry of the high half being dropped.
C14_AddWraps ==
    (oper = "add" /\ ap = "done")
        => /\ ret.upper \in 0..U128_MAX /\ ret.lower \in 0..U128_MAX
           /\ Value(ret) = (Value(opx) + Value(opy)) % U256Mod

\* C14 witness: both halves overflow, 2 * (2^255 + 2^127) gives upper 1, lower 0.
C14_Witness ==
    /\ oper = "add" /\ ap = "done"
    /\ opx = from_u128s(HalfMod \div 2, HalfMod \div 2) /\ opy = opx
    /\ ret = from_u128s(1, 0)

\* C15: x - y is (x - y) mod 2^256 for all x and y, so that (x - y) + y = x.
C15_SubWraps ==
    (oper = "sub" /\ ap = "done")
        => /\ Value(ret) = (Value(opx) - Value(opy) + U256Mod) % U256Mod
           /\ u256_add(ret, opy) = opx

\* C16: x - y is the exact difference when x >= y, and max - (y - x) when
\* x < y, as the unit test pins with 0 - 1 = (u128::MAX, u128::MAX - 1).
C16_SubAsTested ==
    (oper = "sub" /\ ap = "done")
        => Value(ret) = IF Value(opx) >= Value(opy)
                          THEN Value(opx) - Value(opy)
                          ELSE Value(max) - (Value(opy) - Value(opx))

\* C16 witness: 0 - 1 has been computed as (u128::MAX, u128::MAX - 1).
C16_Witness ==
    /\ oper = "sub" /\ ap = "done"
    /\ opx = zero /\ opy = one
    /\ ret = from_u128s(U128_MAX, U128_MAX - 1)

\* C17: a * b is (a * b) mod 2^256 for all a and b, b = 0 and b = 1 included.
C17_MulWraps ==
    (oper = "mul" /\ ap = "done")
        => Value(ret) = (Value(opx) * Value(opy)) % U256Mod

\* C18: for b # 0, a % b terminates and returns the remainder of a by b.
C18_RemIsRemainder ==
    /\ []((oper = "rem" /\ ap = "done" /\ opy # zero)
            => Value(ret) = Value(opx) % Value(opy))
    /\ ((oper = "rem" /\ opy # zero) ~> (ap = "done"))

\* C18 witness: 10 % 3 has returned 1.
C18_Witness ==
    /\ oper = "rem" /\ ap = "done"
    /\ opx = from_u128s(0, 10) /\ opy = from_u128s(0, 3)
    /\ ret = one

\* C19: x % 0 completes and returns 0.
C19_RemZeroCompletes ==
    (oper = "rem" /\ opy = zero) ~> (ap = "done" /\ ret = zero)

\* C20: on a stack with top a1 over a2 the MOD handler completes and leaves 0
\* in their place when a2 = 0, and a1 mod a2 otherwise.
C20_ModHandler ==
    [][(ap = "idle" /\ oper' = "MOD")
          => /\ result' = "Ok"
             /\ stack' = Append(SubSeq(stack, 1, Len(stack) - 2),
                                IF Value(opy) = 0
                                  THEN zero
                                  ELSE FromValue(Value(opx) % Value(opy)))
      ]_vars

\* C20 witness: MOD has run with a zero a2 under a non-zero a1 and left 0.
C20_Witness ==
    /\ oper = "MOD" /\ ap = "done"
    /\ opy = zero /\ opx # zero
    /\ stack[Len(stack)] = zero

\* C21: the ROM 60 00 60 05 04 00 ends in a normal halt with the stack
\* exactly [0]: DIV pops its two operands and pushes 0 for a zero divisor.
C21_DivZeroScenario ==
    (mode = "run" /\ rom = Rom_DivZero /\ status # "Running")
        => (status = "Exited" /\ StackValues = <<0>>)

\* C28: in the ROM 60 04 56 00 5b 00 the JUMP pops its target and sets the
\* program counter to 4, so the STOP at offset 3 is never dispatched; the run
\* then passes the JUMPDEST and ends in a normal halt.
C28_ValidJumpScenario ==
    (mode = "run" /\ rom = Rom_ValidJump)
        => /\ ~(pc = 4 /\ opcode = 0)
           /\ (opcode = JUMP => (pc = 4 /\ stack = <<>>))
           /\ (status # "Running" => status = "Exited")

\* C29: a JUMP whose target is not the offset of a JUMPDEST does not return
\* success and ends the run in a fault; the ROM 60 03 56 00 is such a run.
C29_InvalidJumpFaults ==
    [][(/\ mode = "run" /\ status = "Running"
        /\ pc < size /\ rom[pc + 1] = JUMP
        /\ Len(stack) >= 1
        /\ LET t == Value(stack[Len(stack)]) IN
             t >= size \/ rom[t + 1] # JUMPDEST)
          => (result' # "Ok" /\ status' \notin {"Running", "Exited"})
      ]_vars

\* The number of tokens on the printed lines: one per byte of the ROM shown.
RECURSIVE TokenCount(_)
TokenCount(ls) ==
    IF ls = <<>> THEN 0 ELSE Len(Head(ls)) + TokenCount(Tail(ls))

\* The byte a printed token stands for: a raw hex byte is read back from its
\* two digits, a mnemonic is looked up in the table.
token_byte(t) ==
    IF t.kind = "hex"
      THEN t.hi * 16 + t.lo
      ELSE CHOOSE o \in DOMAIN Instructions : Instructions[o].mnemonic = t.text

\* The bytes of the printed lines, in order.
RECURSIVE Reassemble(_)
Reassemble(ls) ==
    IF ls = <<>> THEN <<>>
    ELSE [i \in 1..Len(Head(ls)) |-> token_byte(Head(ls)[i])]
             \o Reassemble(Tail(ls))

\* C23: reaching the end of the ROM is not a fault of the disassembler: on a
\* ROM that ends at an instruction boundary (every byte is on a printed line)
\* disassemble stops without returning or reporting an error.
C23_DisassembleEndsCleanly ==
    (mode = "disassemble" /\ status # "Running" /\ TokenCount(lines) = size)
        => (status = "Exited" /\ result = "None")

\* C24: when the ROM ends inside the immediates of a PUSHn the pending partial
\* line is printed before the disassembler stops, so every byte of the ROM is
\* on a printed line once it has stopped.
C24_PartialLineEmitted ==
    (mode = "disassemble" /\ status = "Exited") => TokenCount(lines) = size

\* C25: for every ROM, reading the printed lines back into bytes and
\* concatenating them gives the ROM again.
C25_RoundTrip ==
    (mode = "disassemble" /\ status # "Running") => Reassemble(lines) = rom

\* C26: for a byte with no table entry the disassembler prints one line
\* holding that byte as raw 0xNN, consumes exactly that byte and goes on at
\* the next byte.
C26_UnknownOpcodeLine ==
    [][(/\ mode = "disassemble" /\ status = "Running"
        /\ pc < size /\ rom[pc + 1] \notin DOMAIN Instructions)
          => /\ Len(lines') = Len(lines) + 1
             /\ SubSeq(lines', 1, Len(lines)) = lines
             /\ LET l == lines'[Len(lines')] IN
                  /\ Len(l) = 1 /\ l[1].kind = "hex"
                  /\ l[1].hi \in 0..15 /\ l[1].lo \in 0..15
                  /\ l[1].hi * 16 + l[1].lo = rom[pc + 1]
             /\ pc' = pc + 1
             /\ status' = "Running"
      ]_vars

\* C26 witness: the unknown byte 0x0c was printed raw on a line of its own
\* and the disassembler printed the following STOP on the next line.
C26_Witness ==
    /\ mode = "disassemble"
    /\ rom = <<12, 0>> /\ pc = 2
    /\ lines = <<<<hex_token(12)>>, <<mnemonic_token("STOP")>>>>

\* C22: the comparison of two words is the total order of their unsigned
\* values: exactly one of x < y, x == y, x > y holds, x <= y is (x < y or
\* x == y), x >= y is not (x < y), and partial_cmp agrees with them.
C22_TotalOrder ==
    (oper = "cmp" /\ ap = "done")
        => /\ ret.lt <=> (Value(opx) < Value(opy))
           /\ ret.eq <=> (Value(opx) = Value(opy))
           /\ ret.gt <=> (Value(opx) > Value(opy))
           /\ Cardinality({r \in {"lt", "eq", "gt"} : ret[r]}) = 1
           /\ ret.le <=> (ret.lt \/ ret.eq)
           /\ ret.ge <=> ~ret.lt
           /\ ret.partial_cmp = (IF ret.lt THEN "Less"
                                 ELSE IF ret.eq THEN "Equal" ELSE "Greater")

\* C22 witness: a word with the greater upper half and the smaller lower half
\* was compared and came out greater.
C22_Witness ==
    /\ oper = "cmp" /\ ap = "done"
    /\ opx.upper > opy.upper /\ opx.lower < opy.lower
    /\ ret.gt /\ ret.partial_cmp = "Greater"

\* C27: on a stack with top a1 over a2 the handlers of LT and GT replace the
\* two by one word: LT by 1 if a1 < a2 and 0 otherwise, GT by 1 if a1 > a2
\* and 0 otherwise.
C27_LtGtHandlers ==
    [][(ap = "idle" /\ oper' \in {"LT", "GT"})
          => /\ result' = "Ok"
             /\ stack' = Append(SubSeq(stack, 1, Len(stack) - 2),
                                IF \/ oper' = "LT" /\ Value(opx) < Value(opy)
                                   \/ oper' = "GT" /\ Value(opx) > Value(opy)
                                  THEN one
                                  ELSE zero)
      ]_vars

\* C30: in the table every DUPn (0x80..0x8f) declares the depth requirement n
\* and the net effect +1, and every SWAPn (0x90..0x9f) declares the depth
\* requirement n + 1 and the net effect 0.  This is the table that run and
\* disassemble look their opcodes up in, at every point of either.
C30_DupSwapDeclared ==
    mode \in {"run", "disassemble"} =>
        \A n \in 1..16 :
            LET dup == Instructions[DUP1 + n - 1]
                swap == Instructions[SWAP1 + n - 1]
            IN  /\ dup.stack_items_removed = n
                /\ dup.stack_items_added - dup.stack_items_removed = 1
                /\ swap.stack_items_removed = n + 1
                /\ swap.stack_items_added - swap.stack_items_removed = 0

\* C30 witness: the run over DUP1..DUP16, SWAP1..SWAP16 has looked up every
\* one of these descriptors, the last being SWAP16 with requirement 17.
C30_Witness ==
    /\ mode = "run" /\ rom = Rom_DupSwap
    /\ pc = size /\ opcode = SWAP1 + 15 /\ result = "Ok"
    /\ Instructions[opcode].stack_items_removed = 17

\* The number of immediate bytes of an opcode: n for PUSHn, 0 for the others.
ImmediateWidth(op) == IF op \in Push1..(Push1 + 31) THEN op + 1 - Push1 ELSE 0

\* C31: for a known opcode with all of its immediates in the ROM the
\* disassembler prints one line, the mnemonic followed by exactly
\* ImmediateWidth immediates, and moves the program counter past them, so
\* that no immediate is decoded as an opcode.
C31_DisassembleKnown ==
    [][(/\ mode = "disassemble" /\ status = "Running"
        /\ pc < size /\ rom[pc + 1] \in DOMAIN Instructions
        /\ pc + 1 + ImmediateWidth(rom[pc + 1]) <= size)
          => LET w == ImmediateWidth(rom[pc + 1]) IN
             /\ lines' = Append(lines,
                    <<mnemonic_token(Instructions[rom[pc + 1]].mnemonic)>>
                        \o [i \in 1..w |-> hex_token(rom[pc + 1 + i])])
             /\ pc' = pc + 1 + w
             /\ status' = "Running"
      ]_vars

\* C31 witness: PUSH2 01 02 was printed on one line and the STOP after it on
\* the next.
C31_Witness ==
    /\ mode = "disassemble" /\ rom = <<97, 1, 2, 0>> /\ pc = 4
    /\ lines = << <<mnemonic_token("PUSH2"), hex_token(1), hex_token(2)>>,
                  <<mnemonic_token("STOP")>> >>

\* C32: run and disassemble fetch their opcodes at the same offsets: after an
\* opcode fetched at an offset, run goes on to fetch at the offset where
\* disassemble fetches after that opcode, unless the ROM is used up.
C32_SameBoundaries ==
    [][(mode = "run" /\ status = "Running" /\ pc < size)
          => /\ pc' = disassemble_line(pc).pc
             /\ (status' = "Running" \/ pc' = size)
      ]_vars

\* C33: in every state of a run every word on the stack is zero.
C33_StackAllZero ==
    mode = "run" => \A i \in 1..Len(stack) : stack[i] = zero

\* C33 witness: five pushes with non-zero immediates followed by ADD, MUL, SUB
\* and MOD have run and left a single zero.
C33_Witness ==
    /\ mode = "run" /\ rom = Rom_Arith /\ status = "Exited"
    /\ opcode = 6 /\ result = "Ok"
    /\ stack = <<zero>>

\* C34: on a non-empty ROM every iteration of the loop of run that fetches
\* an opcode leaves the program counter greater than it was, the fetch at
\* PC = N leaves the loop, and so a run whose instructions never pop from an
\* empty stack comes to its exit with PC = N.
C34_RunTerminates ==
    /\ [][(mode = "run" /\ size > 0 /\ status = "Running")
            => IF pc < size
                 THEN pc < pc' /\ pc' <= size
                 ELSE status' = "Exited" /\ pc' = size
         ]_vars
    /\ (mode = "run" /\ size > 0)
          ~> (status = "Panicked" \/ (status = "Exited" /\ pc = size))

\* C34 witness: the run over STOP and PUSH2 with its two immediates has left
\* the loop at PC = N = 4 without a panic.
C34_Witness ==
    /\ mode = "run" /\ rom = <<0, 97, 1, 2>>
    /\ status = "Exited" /\ pc = 4 /\ Len(stack) = 1

\* C35: on the empty ROM the first next_byte returns the ROMOutOfBounds error
\* and run and disassemble stop cleanly; nothing underflows or aborts.
C35_EmptyRomClean ==
    (size = 0 /\ status # "Running")
        => (status = "Exited" /\ panic_msg = "" /\ pc = 0)

\* C36: a PUSHn with fewer than n bytes left in the ROM returns the
\* ROMOutOfBounds error, leaves the stack as it was and the program counter
\* at N.
C36_TruncatedPushFrame ==
    [][(/\ mode = "run" /\ status = "Running"
        /\ pc < size /\ rom[pc + 1] \in Push1..(Push1 + 31)
        /\ size - (pc + 1) < ImmediateWidth(rom[pc + 1]))
          => /\ result' = "ROMOutOfBounds"
             /\ stack' = stack
             /\ pc' = size
      ]_vars

\* C36 witness: after a complete PUSH1 a PUSH2 with one byte left has
\* returned the error, with the one pushed word still alone on the stack.
C36_Witness ==
    /\ mode = "run" /\ rom = <<96, 1, 97, 2>>
    /\ opcode = 97 /\ result = "ROMOutOfBounds"
    /\ pc = size /\ Len(stack) = 1

\* C37: a table opcode other than ADD, MUL, SUB, MOD and PUSH1..PUSH32
\* leaves the stack, memory, storage and the program counter past the opcode
\* as they were, and no step of a run changes memory, storage or the ROM.
C37_FrameOfOtherOpcodes ==
    [][/\ (/\ mode = "run" /\ status = "Running"
            /\ pc < size /\ rom[pc + 1] \in DOMAIN Instructions
            /\ rom[pc + 1] \notin {1, 2, 3, 6} \cup Push1..(Push1 + 31))
              => (stack' = stack /\ pc' = pc + 1)
       /\ mode = "run"
              => (memory' = memory /\ storage' = storage /\ rom' = rom)
      ]_vars

\* C37 witness: ADDRESS, declared to add one word, was dispatched over a
\* one-word stack and left it a one-word stack.
C37_Witness ==
    /\ mode = "run" /\ rom = <<96, 0, 48>>
    /\ opcode = 48 /\ result = "Ok"
    /\ pc = 3 /\ Len(stack) = 1

====
